---- MODULE Spec2Model ----
(***************************************************************************)
(* Model of src/src/nano_medicine.py: NanoMedicineSystem over its three    *)
(* SQLite tables (nanoparticles, treatments, biodistribution).             *)
(*                                                                         *)
(* Units.  Python floats are modelled by exact integers / rationals:       *)
(*   diameter_nm        tenths of a nanometre   (499 is 49.9 nm)           *)
(*   half_life_h, tmax  hundredths of an hour   (50 is 0.5 h)              *)
(*   absorption         hundredths              (95 is 0.95)               *)
(*   cmax, auc          hundredths, after round(.., 2)                     *)
(*   concentration      exact rational [n, d] in ug/mL                     *)
(* Binary floating-point error is not modelled, except that round(.., 2)   *)
(* may go either way at an exact decimal tie.  The timestamp               *)
(* columns (created_at, updated_at, timestamp) hold datetime.now() and are *)
(* read by no operation; they are left out of the rows.                    *)
(***************************************************************************)
EXTENDS Integers, Sequences, FiniteSets, TLC

VARIABLES nanoparticles, treatments, biodistribution, result

vars == <<nanoparticles, treatments, biodistribution, result>>

tables == <<nanoparticles, treatments, biodistribution>>

(* ---------------------------- bounds ----------------------------------- *)
MaxNp == 1
MaxTx == 1
MaxSims == 2

NpIds == 1..MaxNp
TxIds == 1..MaxTx
\* an id that uuid4 never produced
MissingId == 0

(* ---------------------------- enums ------------------------------------ *)
NanoparticleType ==
    {"liposome", "polymeric", "metallic", "dendrimer", "quantum_dot", "carbon_nanotube"}

DeliveryRoute == {"iv", "oral", "inhalation", "topical", "intratumoral"}

TreatmentStatus == {"planned", "active", "completed", "discontinued"}

Material == {"pla", "plga", "chitosan", "gold", "iron_oxide", "silica", "lipid"}

(* ---------------------------- arithmetic ------------------------------- *)
Abs(x) == IF x < 0 THEN -x ELSE x

Min(a, b) == IF a < b THEN a ELSE b

RECURSIVE Gcd(_, _)
Gcd(a, b) == IF b = 0 THEN a ELSE Gcd(b, a % b)

\* a rational n/d with d > 0 in lowest terms
Rat(n, d) ==
    LET g == Gcd(Abs(n), d)
    IN  [n |-> n \div g, d |-> d \div g]

RatAdd(a, b) == Rat(a.n * b.d + b.n * a.d, a.d * b.d)

\* round(n/d, 2) in hundredths, d > 0.  At an exact decimal tie the binary
\* float lies on either side of it, so both neighbours are possible.
Round2(n, d) ==
    LET m == Abs(n)
        ip == m \div d
        fr == (m % d) * 100
        h == fr \div d
        r == fr % d
        q == ip * 100 + h
        near == IF 2 * r = d THEN {q, q + 1}
                ELSE IF 2 * r > d THEN {q + 1} ELSE {q}
    IN  IF n < 0 THEN {-a : a \in near} ELSE near

(* ---------------------------- results ---------------------------------- *)
NoResult == [op |-> "none", args |-> <<>>, raised |-> "none", msg |-> "", value |-> <<>>]

Return(op, args, value) ==
    [op |-> op, args |-> args, raised |-> "none", msg |-> "", value |-> value]

Raise(op, args, exc, msg) ==
    [op |-> op, args |-> args, raised |-> exc, msg |-> msg, value |-> <<>>]

\* Python truthiness of a str
Truthy(s) == s # ""

(* ---------------------------- design_nanoparticle ---------------------- *)
\* gold entered as neutral
charge_map_neutral_gold(material) ==
    CASE material = "lipid" -> -10
      [] material = "plga" -> -15
      [] material = "pla" -> -12
      [] material = "chitosan" -> 25
      [] material = "gold" -> 0
      [] material = "iron_oxide" -> -20
      [] material = "silica" -> -25
      [] OTHER -> -10

charge_map(material) ==
    CASE material = "lipid" -> -10
      [] material = "plga" -> -15
      [] material = "pla" -> -12
      [] material = "chitosan" -> 25
      [] material = "gold" -> -8
      [] material = "iron_oxide" -> -20
      [] material = "silica" -> -25
      [] OTHER -> -10

Nanoparticle(name, type_str, diameter_nm, surface_charge, drug_payload, encapsulation_pct, targeting_ligand, material) ==
    [name |-> name, type |-> type_str, diameter_nm |-> diameter_nm,
     surface_charge_mv |-> surface_charge, drug_payload |-> drug_payload,
     encapsulation_pct |-> encapsulation_pct,
     targeting_ligand |-> targeting_ligand, material |-> material]

design_nanoparticle(name, type_str, diameter_nm, drug_payload, material, targeting_ligand, encapsulation_pct) ==
    LET args == <<type_str, material>>
    IN  IF type_str \notin NanoparticleType
        THEN /\ result' = Raise("design_nanoparticle", args, "ValueError", "invalid type")
             /\ UNCHANGED tables
        ELSE IF material \notin Material
        THEN /\ result' = Raise("design_nanoparticle", args, "ValueError", "invalid material")
             /\ UNCHANGED tables
        ELSE \E np_id \in NpIds \ DOMAIN nanoparticles :
                LET np == Nanoparticle(name, type_str, diameter_nm, charge_map(material),
                                       drug_payload, encapsulation_pct,
                                       targeting_ligand, material)
                IN  /\ nanoparticles' = nanoparticles @@ (np_id :> np)
                    /\ result' = Return("design_nanoparticle", args,
                                        [id |-> np_id, np |-> np])
                    /\ UNCHANGED <<treatments, biodistribution>>

(* ---------------------------- simulate_delivery ------------------------ *)
\* a Python dict: its keys in insertion order and their values
BaselineKeys == <<"liver", "spleen", "kidney", "bone_marrow", "tumor", "other">>

BaselineDistribution ==
    [keys |-> BaselineKeys,
     val |-> [k \in {"liver", "spleen", "kidney", "bone_marrow", "tumor", "other"} |->
                CASE k = "liver" -> 35
                  [] k = "spleen" -> 25
                  [] k = "kidney" -> 15
                  [] k = "bone_marrow" -> 10
                  [] k = "tumor" -> 5
                  [] k = "other" -> 10]]

DictGet(dict, key, default) ==
    IF key \in DOMAIN dict.val THEN dict.val[key] ELSE default

DictSet(dict, key, v) ==
    IF key \in DOMAIN dict.val
    THEN [keys |-> dict.keys, val |-> [dict.val EXCEPT ![key] = v]]
    ELSE [keys |-> Append(dict.keys, key), val |-> dict.val @@ (key :> v)]

RECURSIVE SumValues(_, _)
SumValues(dict, i) ==
    IF i > Len(dict.keys) THEN 0 ELSE dict.val[dict.keys[i]] + SumValues(dict, i + 1)

\* lines 186-197: the baseline table, boosted at the target when a ligand is present
tissue_distribution(np_row, target_tissue) ==
    IF Truthy(np_row.targeting_ligand)
    THEN DictSet(BaselineDistribution, target_tissue,
                 Min(70, DictGet(BaselineDistribution, target_tissue, 10) + 40))
    ELSE BaselineDistribution

\* the total taken as the baseline's 100 instead of the sum after the boost
biodist_fixed_total(np_row, target_tissue, dose_mg) ==
    LET dist == tissue_distribution(np_row, target_tissue)
    IN  [keys |-> dist.keys,
         val |-> [k \in DOMAIN dist.val |-> Rat(dist.val[k] * dose_mg * 1000, 100)]]

\* lines 200-201: normalise to the dose, in ug
biodist(np_row, target_tissue, dose_mg) ==
    LET dist == tissue_distribution(np_row, target_tissue)
        total == SumValues(dist, 1)
    IN  [keys |-> dist.keys,
         val |-> [k \in DOMAIN dist.val |-> Rat(dist.val[k] * dose_mg * 1000, total)]]

\* rows for the baseline tissues only
BiodistRows_baseline_only(nanoparticle_id, dict) ==
    [i \in 1..Len(BaselineKeys) |->
        [nanoparticle_id |-> nanoparticle_id, tissue |-> dict.keys[i],
         concentration_ug_ml |-> dict.val[dict.keys[i]]]]

\* lines 206-209: one row per item of the dict, in its order
BiodistRows(nanoparticle_id, dict) ==
    [i \in 1..Len(dict.keys) |->
        [nanoparticle_id |-> nanoparticle_id, tissue |-> dict.keys[i],
         concentration_ug_ml |-> dict.val[dict.keys[i]]]]

\* every call logs exactly one "liver" row
SimCount == Cardinality({i \in DOMAIN biodistribution : biodistribution[i].tissue = "liver"})

\* the rows written before the lookup result is tested
simulate_delivery_log_first(nanoparticle_id, target_tissue, dose_mg) ==
    LET args == <<nanoparticle_id, target_tissue, dose_mg>>
        np_row == IF nanoparticle_id \in DOMAIN nanoparticles
                  THEN nanoparticles[nanoparticle_id]
                  ELSE Nanoparticle("", "", 0, 0, "", 0, "", "")
        b == biodist(np_row, target_tissue, dose_mg)
    IN  /\ SimCount < MaxSims
        /\ biodistribution' = biodistribution \o BiodistRows(nanoparticle_id, b)
        /\ UNCHANGED <<nanoparticles, treatments>>
        /\ IF nanoparticle_id \notin DOMAIN nanoparticles
           THEN result' = Raise("simulate_delivery", args, "ValueError", "not found")
           ELSE result' = Return("simulate_delivery", args, b)

simulate_delivery(nanoparticle_id, target_tissue, dose_mg) ==
    LET args == <<nanoparticle_id, target_tissue, dose_mg>>
    IN  IF nanoparticle_id \notin DOMAIN nanoparticles
        THEN /\ result' = Raise("simulate_delivery", args, "ValueError", "not found")
             /\ UNCHANGED tables
        ELSE LET b == biodist(nanoparticles[nanoparticle_id], target_tissue, dose_mg)
             IN  /\ SimCount < MaxSims
                 /\ biodistribution' = biodistribution \o BiodistRows(nanoparticle_id, b)
                 /\ result' = Return("simulate_delivery", args, b)
                 /\ UNCHANGED <<nanoparticles, treatments>>

(* ---------------------------- create_treatment ------------------------- *)
\* json.dumps of a list of str: the text that holds it
JsonDumps(list) == [json |-> list]

JsonLoads(text) == text.json

TreatmentPlan(patient_id, nanoparticle_id, dose_mg_kg, route, frequency, duration_days, status, efficacy_pct, side_effects) ==
    [patient_id |-> patient_id, nanoparticle_id |-> nanoparticle_id,
     dose_mg_kg |-> dose_mg_kg, route |-> route, frequency |-> frequency,
     duration_days |-> duration_days, status |-> status,
     efficacy_pct |-> efficacy_pct, side_effects |-> side_effects]

\* no lookup of the nanoparticle
create_treatment_no_lookup(patient_id, nanoparticle_id, dose_mg_kg, route, duration_days, frequency) ==
    LET args == <<patient_id, nanoparticle_id, dose_mg_kg, route, duration_days,
                  frequency>>
    IN  IF route \notin DeliveryRoute
        THEN /\ result' = Raise("create_treatment", args, "ValueError", "invalid route")
             /\ UNCHANGED tables
        ELSE \E treatment_id \in TxIds \ DOMAIN treatments :
                LET treatment == TreatmentPlan(patient_id, nanoparticle_id, dose_mg_kg,
                                               route, frequency, duration_days,
                                               "planned", 0, <<>>)
                    row == [treatment EXCEPT !.side_effects = JsonDumps(@)]
                IN  /\ treatments' = treatments @@ (treatment_id :> row)
                    /\ result' = Return("create_treatment", args,
                                        [id |-> treatment_id, treatment |-> treatment])
                    /\ UNCHANGED <<nanoparticles, biodistribution>>

create_treatment(patient_id, nanoparticle_id, dose_mg_kg, route, duration_days, frequency) ==
    LET args == <<patient_id, nanoparticle_id, dose_mg_kg, route, duration_days,
                  frequency>>
    IN  IF route \notin DeliveryRoute
        THEN /\ result' = Raise("create_treatment", args, "ValueError", "invalid route")
             /\ UNCHANGED tables
        ELSE IF nanoparticle_id \notin DOMAIN nanoparticles
        THEN /\ result' = Raise("create_treatment", args, "ValueError", "not found")
             /\ UNCHANGED tables
        ELSE \E treatment_id \in TxIds \ DOMAIN treatments :
                LET treatment == TreatmentPlan(patient_id, nanoparticle_id, dose_mg_kg,
                                               route, frequency, duration_days,
                                               "planned", 0, <<>>)
                    row == [treatment EXCEPT !.side_effects = JsonDumps(@)]
                IN  /\ treatments' = treatments @@ (treatment_id :> row)
                    /\ result' = Return("create_treatment", args,
                                        [id |-> treatment_id, treatment |-> treatment])
                    /\ UNCHANGED <<nanoparticles, biodistribution>>

(* ---------------------------- update_efficacy -------------------------- *)
\* an Optional[List[str]] argument
None == [none |-> TRUE, list |-> <<>>]

Some(list) == [none |-> FALSE, list |-> list]

\* side_effects or []
OrEmpty(side_effects) ==
    IF side_effects.none \/ side_effects.list = <<>> THEN <<>> ELSE side_effects.list

\* UPDATE treatments SET ... WHERE id = ?
UpdateTreatment(treatment_id, efficacy_pct, side_effects_text, status) ==
    [id \in DOMAIN treatments |->
        IF id = treatment_id
        THEN [treatments[id] EXCEPT !.efficacy_pct = efficacy_pct,
                                    !.side_effects = side_effects_text,
                                    !.status = status]
        ELSE treatments[id]]

\* the side effects left as they were
update_efficacy_keeps_side_effects(treatment_id, efficacy_pct, side_effects) ==
    /\ treatments' = [id \in DOMAIN treatments |->
                        IF id = treatment_id
                        THEN [treatments[id] EXCEPT !.efficacy_pct = efficacy_pct,
                                                    !.status = "active"]
                        ELSE treatments[id]]
    /\ result' = Return("update_efficacy", <<treatment_id, efficacy_pct, side_effects>>, <<>>)
    /\ UNCHANGED <<nanoparticles, biodistribution>>

update_efficacy(treatment_id, efficacy_pct, side_effects) ==
    /\ treatments' = UpdateTreatment(treatment_id, efficacy_pct,
                                     JsonDumps(OrEmpty(side_effects)), "active")
    /\ result' = Return("update_efficacy", <<treatment_id, efficacy_pct, side_effects>>, <<>>)
    /\ UNCHANGED <<nanoparticles, biodistribution>>

(* ---------------------------- pharmacokinetics ------------------------- *)
\* the boundaries given to the tier below
t_half_inclusive(diameter) ==
    IF diameter <= 500 THEN 50
    ELSE IF diameter <= 1000 THEN 200
    ELSE IF diameter <= 2000 THEN 600
    ELSE 1200

\* lines 312-319, diameter in tenths of nm, result in hundredths of an hour
t_half(diameter) ==
    IF diameter < 500 THEN 50
    ELSE IF diameter < 1000 THEN 200
    ELSE IF diameter < 2000 THEN 600
    ELSE 1200

material_abs(material) ==
    CASE material = "lipid" -> 95
      [] material = "plga" -> 85
      [] material = "pla" -> 80
      [] material = "chitosan" -> 70
      [] material = "gold" -> 50
      [] material = "iron_oxide" -> 60
      [] material = "silica" -> 40
      [] OTHER -> 75

\* round(n/d, 2) for a denominator of either sign
Round2Signed(n, d) == IF d < 0 THEN Round2(-n, -d) ELSE Round2(n, d)

pharmacokinetics(nanoparticle_id, dose_mg) ==
    LET args == <<nanoparticle_id, dose_mg>>
    IN  /\ UNCHANGED tables
        /\ IF nanoparticle_id \notin DOMAIN nanoparticles
           THEN result' = Raise("pharmacokinetics", args, "ValueError", "not found")
           ELSE LET np_row == nanoparticles[nanoparticle_id]
                    diameter == np_row.diameter_nm
                    material == np_row.material
                    th == t_half(diameter)
                    absorption == material_abs(material)
                IN  IF diameter = 0
                    THEN result' = Raise("pharmacokinetics", args, "ZeroDivisionError", "")
                    ELSE \E cmax \in Round2Signed(dose_mg * absorption * 10, diameter),
                            auc \in Round2Signed(dose_mg * absorption * th * 100,
                                                 diameter * 693) :
                            result' = Return("pharmacokinetics", args,
                                [cmax_ug_ml |-> cmax,
                                 tmax_h |-> (th * 3) \div 10,
                                 auc_ug_h_ml |-> auc,
                                 half_life_h |-> th,
                                 clearance_route |-> material])

(* ---------------------------- toxicity_assessment ---------------------- *)
material_toxicity(material) ==
    CASE material = "lipid" -> 90
      [] material = "plga" -> 85
      [] material = "pla" -> 85
      [] material = "chitosan" -> 80
      [] material = "gold" -> 75
      [] material = "iron_oxide" -> 70
      [] material = "silica" -> 65
      [] OTHER -> 60

\* the band edges counted as inside the penalty
SizeScore_inclusive(score, diameter) ==
    IF diameter <= 100 \/ diameter >= 5000 THEN score - 30
    ELSE IF diameter <= 300 \/ diameter >= 3000 THEN score - 15
    ELSE score

\* lines 367-370, diameter in tenths of nm
SizeScore(score, diameter) ==
    IF diameter < 100 \/ diameter > 5000 THEN score - 30
    ELSE IF diameter < 300 \/ diameter > 3000 THEN score - 15
    ELSE score

\* lines 373-376
ChargeScore(score, charge) ==
    IF Abs(charge) < 5 THEN score - 10
    ELSE IF Abs(charge) > 50 THEN score - 15
    ELSE score

\* lines 359-397
ToxicityReport(np_row) ==
    LET diameter == np_row.diameter_nm
        charge == Abs(np_row.surface_charge_mv)
        material == np_row.material
        score == Min(ChargeScore(SizeScore(100, diameter), charge),
                     material_toxicity(material))
    IN  [safety_score |-> score,
         risk_level |-> IF score > 75 THEN "low"
                        ELSE IF score > 50 THEN "moderate" ELSE "high",
         diameter_optimal |-> (500 <= diameter /\ diameter <= 2000),
         charge_optimal |-> (10 <= Abs(charge) /\ Abs(charge) <= 40),
         material |-> material]

toxicity_assessment(nanoparticle_id) ==
    /\ UNCHANGED tables
    /\ IF nanoparticle_id \notin DOMAIN nanoparticles
       THEN result' = Raise("toxicity_assessment", <<nanoparticle_id>>,
                            "ValueError", "not found")
       ELSE result' = Return("toxicity_assessment", <<nanoparticle_id>>,
                             ToxicityReport(nanoparticles[nanoparticle_id]))

(* ---------------------------- specification ---------------------------- *)
\* The store as a client drives it, from an empty database.
Init ==
    /\ nanoparticles = <<>>
    /\ treatments = <<>>
    /\ biodistribution = <<>>
    /\ result = NoResult

Names == {"np"}
Drugs == {"dox"}
Types == {"liposome", "nanobot"}
Diameters == {1000}
Materials == {"lipid", "unobtainium"}
Ligands == {"", "folate"}
Encapsulations == {85}
Targets == {"liver", "brain"}
Doses == {2}
Patients == {"p1"}
Routes == {"iv", "teleport"}
Efficacies == {60}
SideEffects == {None, Some(<<"nausea">>)}

Design ==
    \E name \in Names, type_str \in Types, diameter_nm \in Diameters,
       drug_payload \in Drugs, material \in Materials,
       targeting_ligand \in Ligands, encapsulation_pct \in Encapsulations :
        design_nanoparticle(name, type_str, diameter_nm, drug_payload, material,
                            targeting_ligand, encapsulation_pct)

Simulate ==
    \E nanoparticle_id \in NpIds \cup {MissingId}, target_tissue \in Targets,
       dose_mg \in Doses :
        simulate_delivery(nanoparticle_id, target_tissue, dose_mg)

CreateTreatment ==
    \E patient_id \in Patients, nanoparticle_id \in NpIds \cup {MissingId},
       route \in Routes :
        create_treatment(patient_id, nanoparticle_id, 2, route, 7, "daily")

UpdateEfficacy ==
    \E treatment_id \in TxIds \cup {MissingId}, efficacy_pct \in Efficacies,
       side_effects \in SideEffects :
        update_efficacy(treatment_id, efficacy_pct, side_effects)

Pharmacokinetics ==
    \E nanoparticle_id \in NpIds \cup {MissingId}, dose_mg \in Doses :
        pharmacokinetics(nanoparticle_id, dose_mg)

ToxicityAssessment ==
    \E nanoparticle_id \in NpIds \cup {MissingId} :
        toxicity_assessment(nanoparticle_id)

Next ==
    \/ Design
    \/ Simulate
    \/ CreateTreatment
    \/ UpdateEfficacy
    \/ Pharmacokinetics
    \/ ToxicityAssessment

Spec == Init /\ [][Next]_vars

(* ---------------------------- design, then assess ---------------------- *)
\* Every record design_nanoparticle can store: a diameter in each size band
\* (and below zero), every material.
DesignDiameters == {-50, 0, 99, 100, 299, 300, 1000, 3000, 3001, 5000, 5001}
DesignMaterials == Material \cup {"unobtainium"}
DesignEncapsulations == {85, -1}

DesignAny ==
    \E diameter_nm \in DesignDiameters, material \in DesignMaterials,
       encapsulation_pct \in DesignEncapsulations :
        design_nanoparticle("np", "liposome", diameter_nm, "dox", material, "",
                            encapsulation_pct)

AssessAny ==
    \E nanoparticle_id \in NpIds \cup {MissingId} :
        toxicity_assessment(nanoparticle_id)

NextDesign ==
    \/ DesignAny
    \/ AssessAny

SpecDesign == Init /\ [][NextDesign]_vars

(* ---------------------------- the scoring engine on any row ------------ *)
\* pharmacokinetics and toxicity_assessment are functions of the row they
\* read; the row ranges over the values the columns admit.
EngineDiameters ==
    {-50, 0, 99, 100, 299, 300, 499, 500, 999, 1000, 1999, 2000, 3000, 3001, 5000, 5001}
EngineCharges == {-60, -51, -50, -25, -20, -5, -4, 0, 4, 5, 50, 51}
EngineMaterials == Material \cup {"titanium"}
EngineDoses == {1, 3}

InitEngine ==
    /\ \E diameter_nm \in EngineDiameters, surface_charge \in EngineCharges,
          material \in EngineMaterials :
            nanoparticles = (1 :> Nanoparticle("np", "liposome", diameter_nm,
                                               surface_charge, "dox", 85, "", material))
    /\ treatments = <<>>
    /\ biodistribution = <<>>
    /\ result = NoResult

ComputePK ==
    \E nanoparticle_id \in {1, MissingId}, dose_mg \in EngineDoses :
        pharmacokinetics(nanoparticle_id, dose_mg)

AssessToxicity ==
    \E nanoparticle_id \in {1, MissingId} :
        toxicity_assessment(nanoparticle_id)

NextEngine ==
    \/ ComputePK
    \/ AssessToxicity

SpecEngine == InitEngine /\ [][NextEngine]_vars

(* ---------------------------- the allocator on any target -------------- *)
DeliveryLigands == {"", "folate"}
DeliveryTargets == {"liver", "spleen", "kidney", "bone_marrow", "tumor", "other", "brain"}
DeliveryDoses == {1, 3}

InitDelivery ==
    /\ \E targeting_ligand \in DeliveryLigands :
            nanoparticles = (1 :> Nanoparticle("np", "liposome", 1000, charge_map("lipid"),
                                               "dox", 85, targeting_ligand, "lipid"))
    /\ treatments = <<>>
    /\ biodistribution = <<>>
    /\ result = NoResult

Allocate ==
    \E nanoparticle_id \in {1, MissingId}, target_tissue \in DeliveryTargets,
       dose_mg \in DeliveryDoses :
        simulate_delivery(nanoparticle_id, target_tissue, dose_mg)

NextDelivery == Allocate

SpecDelivery == InitDelivery /\ [][NextDelivery]_vars

(* ======================================================================= *)
(* Properties                                                              *)
(* ======================================================================= *)
BaselineTissues == {"liver", "spleen", "kidney", "bone_marrow", "tumor", "other"}

Succeeded(r, op) == r.op = op /\ r.raised = "none"

NotFound(r) == r.raised = "ValueError" /\ r.msg = "not found"

\* C1: the concentrations returned by simulate_delivery sum to dose_mg * 1000,
\* for every target tissue, with or without a ligand, for every dose_mg > 0.
C1_ConcentrationsSumToDose ==
    (Succeeded(result, "simulate_delivery") /\ result.args[3] > 0) =>
        LET b == result.value
            RECURSIVE Sum(_)
            Sum(i) == IF i > Len(b.keys) THEN Rat(0, 1)
                      ELSE RatAdd(b.val[b.keys[i]], Sum(i + 1))
        IN  Sum(1) = Rat(result.args[3] * 1000, 1)

\* a ligand-bearing particle sent to a tissue outside the baseline table
C1_Witness ==
    /\ Succeeded(result, "simulate_delivery")
    /\ result.args[2] = "brain"
    /\ Truthy(nanoparticles[result.args[1]].targeting_ligand)
    /\ Len(result.value.keys) = 7

\* C2: simulate_delivery, pharmacokinetics and toxicity_assessment called with
\* an id that is not in the store fail with "not found" and change no table.
C2_NotFoundBeforeMutation ==
    [][(/\ result'.op \in {"simulate_delivery", "pharmacokinetics", "toxicity_assessment"}
        /\ result'.args[1] \notin DOMAIN nanoparticles)
       => (NotFound(result') /\ tables' = tables)]_vars

\* a failed simulation against a store that holds rows in all three tables
C2_Witness ==
    /\ result.op = "simulate_delivery"
    /\ NotFound(result)
    /\ nanoparticles # <<>>
    /\ treatments # <<>>
    /\ biodistribution # <<>>

\* C3: every treatment references a stored nanoparticle; create_treatment with
\* an unknown nanoparticle id fails and adds no treatment.
C3_TreatmentReferencesNanoparticle ==
    [][/\ \A t \in DOMAIN treatments' :
            treatments'[t].nanoparticle_id \in DOMAIN nanoparticles'
       /\ (result'.op = "create_treatment" /\ result'.args[2] \notin DOMAIN nanoparticles)
            => (result'.raised # "none" /\ treatments' = treatments)]_vars

\* a valid route with an unknown nanoparticle, refused while a treatment exists
C3_Witness ==
    /\ result.op = "create_treatment"
    /\ NotFound(result)
    /\ result.args[4] \in DeliveryRoute
    /\ treatments # <<>>

\* C4: update_efficacy with a treatment id that is not in the store fails with
\* NotFound and leaves every stored treatment unchanged.
C4_UnknownTreatmentFails ==
    [][(result'.op = "update_efficacy" /\ result'.args[1] \notin DOMAIN treatments)
       => (result'.raised # "none" /\ treatments' = treatments)]_vars

\* C5: a treatment is created planned, with efficacy 0 and no side effects;
\* update_efficacy on an existing treatment replaces efficacy and side effects
\* and sets it active; an active treatment never becomes planned again.
C5_TreatmentLifecycle ==
    [][/\ Succeeded(result', "create_treatment") =>
            LET t == result'.value.id
            IN  /\ t \notin DOMAIN treatments
                /\ t \in DOMAIN treatments'
                /\ treatments'[t].status = "planned"
                /\ treatments'[t].efficacy_pct = 0
                /\ JsonLoads(treatments'[t].side_effects) = <<>>
       /\ (result'.op = "update_efficacy" /\ result'.args[1] \in DOMAIN treatments) =>
            LET t == result'.args[1]
            IN  /\ result'.raised = "none"
                /\ treatments'[t].efficacy_pct = result'.args[2]
                /\ JsonLoads(treatments'[t].side_effects) =
                        (IF result'.args[3].none THEN <<>> ELSE result'.args[3].list)
                /\ treatments'[t].status = "active"
       /\ \A t \in DOMAIN treatments :
            /\ t \in DOMAIN treatments'
            /\ treatments[t].status = "active" => treatments'[t].status = "active"
       /\ \A t \in DOMAIN treatments' : treatments'[t].status \in {"planned", "active"}]_vars

\* an update without side effects on a treatment that is active
C5_Witness ==
    /\ result.op = "update_efficacy"
    /\ result.args[1] \in DOMAIN treatments
    /\ result.args[3].none
    /\ treatments[result.args[1]].status = "active"
    /\ JsonLoads(treatments[result.args[1]].side_effects) = <<>>

\* C6: a successful simulate_delivery appends one sample per tissue of the
\* returned mapping (the six baseline tissues, and the target when a ligand is
\* present and the target is not a baseline tissue), each with the returned
\* concentration, and changes nothing else.
C6_AppendsOneSamplePerTissue ==
    [][Succeeded(result', "simulate_delivery") =>
        LET id == result'.args[1]
            b == result'.value
            old == Len(biodistribution)
            tissues == BaselineTissues \cup
                       (IF Truthy(nanoparticles[id].targeting_ligand)
                        THEN {result'.args[2]} ELSE {})
            added == (old + 1)..Len(biodistribution')
        IN  /\ DOMAIN b.val = tissues
            /\ Len(biodistribution') = old + Cardinality(tissues)
            /\ SubSeq(biodistribution', 1, old) = biodistribution
            /\ \A k \in tissues :
                  Cardinality({i \in added : biodistribution'[i].tissue = k}) = 1
            /\ \A i \in added :
                  /\ biodistribution'[i].nanoparticle_id = id
                  /\ biodistribution'[i].concentration_ug_ml =
                        b.val[biodistribution'[i].tissue]
            /\ nanoparticles' = nanoparticles
            /\ treatments' = treatments]_vars

\* a second simulation, seven tissues, with a treatment in the store
C6_Witness ==
    /\ Succeeded(result, "simulate_delivery")
    /\ Len(result.value.keys) = 7
    /\ Len(biodistribution) > 7
    /\ treatments # <<>>

\* C7: safety_score = min(100 - size_penalty - charge_penalty, ceiling(material))
\* with size_penalty 30 below 10 nm or above 500 nm, else 15 below 30 nm or
\* above 300 nm, else 0; charge_penalty 10 when |charge| < 5, else 15 when
\* |charge| > 50, else 0; risk_level low above 75, moderate above 50, else high.
C7_SafetyScore ==
    Succeeded(result, "toxicity_assessment") =>
        LET np == nanoparticles[result.args[1]]
            d == np.diameter_nm
            c == Abs(np.surface_charge_mv)
            size_penalty == IF d < 100 \/ d > 5000 THEN 30
                            ELSE IF d < 300 \/ d > 3000 THEN 15 ELSE 0
            charge_penalty == IF c < 5 THEN 10 ELSE IF c > 50 THEN 15 ELSE 0
            ceiling == CASE np.material = "lipid" -> 90
                         [] np.material \in {"plga", "pla"} -> 85
                         [] np.material = "chitosan" -> 80
                         [] np.material = "gold" -> 75
                         [] np.material = "iron_oxide" -> 70
                         [] np.material = "silica" -> 65
                         [] OTHER -> 60
            penalized == 100 - size_penalty - charge_penalty
            score == IF penalized < ceiling THEN penalized ELSE ceiling
        IN  /\ result.value.safety_score = score
            /\ result.value.safety_score <= penalized
            /\ result.value.risk_level =
                  (IF score > 75 THEN "low" ELSE IF score > 50 THEN "moderate" ELSE "high")
            /\ (d = 1000 /\ c = 20 /\ np.material = "silica") =>
                  (result.value.safety_score = 65 /\ result.value.risk_level = "moderate")

\* both penalties applied under a ceiling that does not bind
C7_Witness ==
    /\ Succeeded(result, "toxicity_assessment")
    /\ nanoparticles[result.args[1]].diameter_nm = 5001
    /\ nanoparticles[result.args[1]].surface_charge_mv = -51
    /\ result.value.safety_score = 55

\* C8: half_life_h is 0.5 below 50 nm, 2.0 from 50 to below 100 nm, 6.0 from
\* 100 to below 200 nm and 12.0 from 200 nm, whatever the material and dose.
C8_HalfLifeTiers ==
    Succeeded(result, "pharmacokinetics") =>
        LET d == nanoparticles[result.args[1]].diameter_nm
            h == result.value.half_life_h
        IN  /\ d < 500 => h = 50
            /\ (500 <= d /\ d < 1000) => h = 200
            /\ (1000 <= d /\ d < 2000) => h = 600
            /\ d >= 2000 => h = 1200
            /\ d = 499 => h = 50
            /\ d = 500 => h = 200
            /\ d = 1999 => h = 600
            /\ d = 2000 => h = 1200

\* a diameter of exactly 200 nm
C8_Witness ==
    /\ Succeeded(result, "pharmacokinetics")
    /\ nanoparticles[result.args[1]].diameter_nm = 2000
    /\ result.value.half_life_h = 1200

\* C9: every stored nanoparticle has a non-negative diameter and a
\* non-negative encapsulation percent.
C9_NonNegativeDimensions ==
    \A id \in DOMAIN nanoparticles :
        /\ nanoparticles[id].diameter_nm >= 0
        /\ nanoparticles[id].encapsulation_pct >= 0

\* C10: for a nanoparticle stored by design_nanoparticle the charge penalty
\* never applies, the safety score lies between 65 and 90 and the risk level
\* is never "high".
C10_DesignedScoreRange ==
    /\ \A id \in DOMAIN nanoparticles :
          /\ Abs(nanoparticles[id].surface_charge_mv) >= 5
          /\ Abs(nanoparticles[id].surface_charge_mv) <= 50
    /\ Succeeded(result, "toxicity_assessment") =>
          /\ result.value.safety_score >= 65
          /\ result.value.safety_score <= 90
          /\ result.value.risk_level # "high"

\* the largest size penalty on the material with the lowest ceiling
C10_Witness ==
    /\ Succeeded(result, "toxicity_assessment")
    /\ nanoparticles[result.args[1]].diameter_nm = 5001
    /\ nanoparticles[result.args[1]].material = "silica"
    /\ result.value.safety_score = 65
====
